---- MODULE Spec2Model ----
(***************************************************************************)
(* A model of src/app.py: the TwitterBot retry loop (run), its two stages  *)
(* (generate_tweet, post_tweet), the formatter (_format_content), the      *)
(* credential check (_load_credentials) and the __main__ block.            *)
(*                                                                         *)
(* Strings are sequences of one-character strings.  Python's None is the   *)
(* empty tuple <<>> and a value v that may be None is <<v>>.  Wall-clock   *)
(* time (time.time()) is the integer variable now, in seconds.             *)
(***************************************************************************)
EXTENDS Integers, Sequences, FiniteSets, TLC

VARIABLES
    mainPc,           \* position in the __main__ block; "lib" when the bot is driven as an object
    env,              \* the four credential environment variables
    exitCode,         \* <<>> while the process runs, <<c>> once exit(c) was called
    fatal,            \* the exception the handler of the main block caught, "" if none
    pc,               \* position inside TwitterBot.run
    retries,          \* run's argument
    attempt,          \* run's loop variable
    tweet_content,    \* run's local: the value generate_tweet returned
    result,           \* run's return value: "none" until it returns
    last_tweet_time,  \* TwitterBot.last_tweet_time
    now,              \* time.time()
    calls,            \* how many calls of each kind the current run has made
    numRuns,          \* how many times run was called on this bot
    raw,              \* _format_content's argument (formatter specification)
    out,              \* _format_content's return value (formatter specification)
    again,            \* _format_content's return value for out (formatter specification)
    fmtPc,            \* formatter specification: "input" | "formatted" | "reformatted" | "na"
    postCall          \* the latest post_tweet call: what it read, how long it slept, when it sent

vars == <<mainPc, env, exitCode, fatal, pc, retries, attempt, tweet_content, result,
          last_tweet_time, now, calls, numRuns, raw, out, again, fmtPc, postCall>>

runVars == <<pc, retries, attempt, tweet_content, result, last_tweet_time, now, calls,
             numRuns, postCall>>
fmtVars == <<raw, out, again, fmtPc>>
mainVars == <<mainPc, env, exitCode, fatal>>

----------------------------------------------------------------------------
(* Program constants *)

MAX_TWEET_LENGTH == 280
RATE_LIMIT_DELAY == 60
BackoffDelay == 30
DefaultRetries == 3

(* Bounds of the model *)

MaxRetries == 3      \* run(n) is called with n in -1..MaxRetries
MaxRuns == 2         \* run is called at most MaxRuns times on one bot
MaxLatency == 1      \* the longest latency, in units of BackoffDelay seconds
StartTime == 1000    \* the clock when the bot is constructed
MaxHead == 2         \* longest head of a formatter input
MaxTail == 1         \* longest tail of a formatter input
FillSlack == 9       \* filler lengths start FillSlack below MAX_TWEET_LENGTH

None == <<>>
Some(v) == <<v>>

----------------------------------------------------------------------------
(* Strings *)

Whitespace == {" ", "\n", "\t"}
Ellipsis == <<".", ".", ".">>

IsSpace(c) == c \in Whitespace

\* str.split(): the first index >= i of s that holds no whitespace (Len(s)+1 if none)
SkipSpace(s, i) ==
    CHOOSE k \in i..(Len(s) + 1) :
        /\ k = Len(s) + 1 \/ ~IsSpace(s[k])
        /\ \A m \in i..(k - 1) : IsSpace(s[m])

\* str.split(): the first index >= i of s that holds whitespace (Len(s)+1 if none)
WordEnd(s, i) ==
    CHOOSE k \in i..(Len(s) + 1) :
        /\ k = Len(s) + 1 \/ IsSpace(s[k])
        /\ \A m \in i..(k - 1) : ~IsSpace(s[m])

RECURSIVE SplitFrom(_, _)
SplitFrom(s, i) ==
    LET j == SkipSpace(s, i) IN
    IF j > Len(s) THEN <<>>
    ELSE LET k == WordEnd(s, j) IN <<SubSeq(s, j, k - 1)>> \o SplitFrom(s, k)

\* content.split(): the maximal runs of non-whitespace characters, in order
Split(s) == SplitFrom(s, 1)

RECURSIVE Join(_)
\* ' '.join(words)
Join(words) ==
    IF words = <<>> THEN <<>>
    ELSE IF Len(words) = 1 THEN words[1]
    ELSE words[1] \o <<" ">> \o Join(Tail(words))

\* content[:n]
Prefix(s, n) == SubSeq(s, 1, IF n < Len(s) THEN n ELSE Len(s))

\* a formatter that truncates without normalizing whitespace
FormatContentNoJoin(content) ==
    IF Len(content) > MAX_TWEET_LENGTH - 6
    THEN Prefix(content, MAX_TWEET_LENGTH - 9) \o Ellipsis
    ELSE content

\* a formatter that truncates whatever is longer than the truncated text
FormatContentEarly(content) ==
    LET c == Join(Split(content)) IN
    IF Len(c) > MAX_TWEET_LENGTH - 9
    THEN Prefix(c, MAX_TWEET_LENGTH - 9) \o Ellipsis
    ELSE c

\* a formatter that never truncates
FormatContentNoCut(content) == Join(Split(content))

\* a formatter that truncates to the whole length, without room for the ellipsis
FormatContentFull(content) ==
    LET c == Join(Split(content)) IN
    IF Len(c) > MAX_TWEET_LENGTH - 6
    THEN Prefix(c, MAX_TWEET_LENGTH) \o Ellipsis
    ELSE c

\* TwitterBot._format_content
FormatContent(content) ==
    LET c == Join(Split(content)) IN
    IF Len(c) > MAX_TWEET_LENGTH - 6
    THEN Prefix(c, MAX_TWEET_LENGTH - 9) \o Ellipsis
    ELSE c

----------------------------------------------------------------------------
(* Inputs *)

\* n characters of text: words of p - 2 letters with a space and a newline
\* between them (one word when p = 0)
Filler(n, p) ==
    [i \in 1..n |-> IF p > 0 /\ i % p = 0 THEN " "
                    ELSE IF p > 0 /\ i % p = 1 /\ i > 1 THEN "\n"
                    ELSE "a"]

\* raw generator outputs: a blank text, and a text long enough to be truncated
GenRaws ==
    { <<" ", "\n">>,
      Filler(MAX_TWEET_LENGTH, 46) \o <<" ", "\n">> \o Filler(12, 0) }

\* generate_tweet's return value for each raw text
Formatted == [r \in GenRaws |-> FormatContent(r)]

\* what one generate_tweet call does: return the formatted text, return None after
\* an exception it caught, or let an exception escape to run's handler
GenOutcomes ==
    [kind : {"content"}, raw : GenRaws] \cup [kind : {"none", "raise"}, raw : {<<>>}]

\* what one remote write does: a 2xx response, or an exception (of the transport,
\* or of raise_for_status on a non-2xx response)
PostOutcomes == {"ok", "error"}

\* the seconds the caller lets pass before it calls run
IdleTimes == {0, RATE_LIMIT_DELAY}

\* the seconds a generate_tweet call takes, and a sleep oversleeps
Latencies == {k * BackoffDelay : k \in 0..MaxLatency}

CredVars == {"ACCESS_TOKEN", "ACCESS_TOKEN_SECRET", "CONSUMER_KEY", "CONSUMER_SECRET"}
\* os.getenv(var): None, "" or a non-empty string
EnvValues == {"unset", "empty", "set"}

NoCall == [last |-> None, at |-> 0, wait |-> 0, issued |-> None]

\* the calls a run counts: generate_tweet calls, those that returned "", those
\* that returned None, those whose exception reached run, remote writes, those
\* that failed, those that succeeded, inter-attempt sleeps, rate-limit sleeps
CallKinds ==
    {"generate", "empty", "none", "raised", "publish", "failed", "ok", "backoff", "ratewait"}
NoCalls == [k \in CallKinds |-> 0]
Count(c, kinds) == [k \in CallKinds |-> IF k \in kinds THEN c[k] + 1 ELSE c[k]]

----------------------------------------------------------------------------
(* TwitterBot.run and its stages *)

\* a test for None alone, which lets "" through
FalsyNoneOnly(content) == content = None

\* Python truth value of an Optional[str]: None and "" are false
Falsy(content) == content = None \/ content[1] = <<>>

\* Python truth value of last_tweet_time: None and 0 are false
Recorded(last) == last # None /\ last[1] # 0

\* a post_tweet that never sleeps
RemainingWaitNone(last, t) == 0

\* a post_tweet that takes a missing last publish time for a publish just made
RemainingWaitUnset(last, t) ==
    IF last # None /\ last[1] # 0
    THEN (IF t - last[1] < RATE_LIMIT_DELAY THEN RATE_LIMIT_DELAY - (t - last[1]) ELSE 0)
    ELSE RATE_LIMIT_DELAY

\* post_tweet: the seconds to sleep before the request, 0 when it does not sleep
RemainingWait(last, t) ==
    IF Recorded(last)
    THEN LET elapsed == t - last[1] IN
         IF elapsed < RATE_LIMIT_DELAY THEN RATE_LIMIT_DELAY - elapsed ELSE 0
    ELSE 0

\* a loop whose body runs once more than asked
InRangeInclusive(i, n) == 0 <= i /\ i <= n

\* a loop whose body runs at least once
InRangeFirst(i, n) == i = 0 \/ (0 <= i /\ i < n)

\* a loop that stops one iteration early
InRangeShort(i, n) == 0 <= i /\ i < n - 1

\* i in range(n)
InRange(i, n) == 0 <= i /\ i < n

\* a sleep after the last attempt too
NeedsBackoffAlways(att, n) == att < n

\* run: the guard of the inter-attempt sleep
NeedsBackoff(att, n) == att < n - 1

\* the for loop takes its next value, or is exhausted and run returns False
NextIteration ==
    IF InRange(attempt + 1, retries)
    THEN /\ attempt' = attempt + 1
         /\ pc' = "generate"
         /\ result' = result
    ELSE /\ attempt' = attempt
         /\ pc' = "done"
         /\ result' = "false"

\* the attempt fell through to the end of the loop body
EndOfBody ==
    IF NeedsBackoff(attempt, retries)
    THEN /\ pc' = "backoff"
         /\ UNCHANGED <<attempt, result>>
    ELSE NextIteration

\* a loop body that drops post_tweet's return value
PostReturnedIgnored(posted) == EndOfBody

\* if self.post_tweet(tweet_content): return True
PostReturned(posted) ==
    IF posted
    THEN /\ pc' = "done"
         /\ result' = "true"
         /\ UNCHANGED attempt
    ELSE EndOfBody

\* bot.run(n), called d seconds after the previous call returned
CallRun(n, d) ==
    /\ pc \in {"ready", "done"}
    /\ numRuns < MaxRuns
    /\ numRuns' = numRuns + 1
    /\ now' = now + d
    /\ retries' = n
    /\ attempt' = 0
    /\ tweet_content' = None
    /\ calls' = NoCalls
    /\ postCall' = NoCall
    /\ IF InRange(0, n)
       THEN pc' = "generate" /\ result' = "none"
       ELSE pc' = "done" /\ result' = "false"
    /\ UNCHANGED last_tweet_time

\* tweet_content = self.generate_tweet(); if not tweet_content: continue
Generate ==
    /\ pc = "generate"
    /\ \E o \in GenOutcomes, g \in Latencies :
         /\ now' = now + g
         /\ IF o.kind = "raise"
            THEN /\ tweet_content' = tweet_content
                 /\ calls' = Count(calls, {"generate", "raised"})
                 /\ EndOfBody
            ELSE LET content == IF o.kind = "none" THEN None
                                ELSE Some(Formatted[o.raw]) IN
                 /\ tweet_content' = content
                 /\ calls' = Count(calls, {"generate"} \cup
                                (IF content = None THEN {"none"}
                                 ELSE IF content[1] = <<>> THEN {"empty"} ELSE {}))
                 /\ IF Falsy(content)
                    THEN NextIteration
                    ELSE /\ pc' = "post"
                         /\ UNCHANGED <<attempt, result>>
    /\ UNCHANGED <<retries, last_tweet_time, numRuns, postCall, mainVars, fmtVars>>

\* a post_tweet that records the time before it checks the response
RecordPublishAlways(posted, last, t) == Some(t)

\* post_tweet: self.last_tweet_time = time.time(), reached only when neither the
\* request nor raise_for_status raised
RecordPublish(posted, last, t) == IF posted THEN Some(t) ELSE last

\* post_tweet, up to the request: the rate-limit sleep
PostWait ==
    /\ pc = "post"
    /\ LET w == RemainingWait(last_tweet_time, now) IN
       /\ postCall' = [last |-> last_tweet_time, at |-> now, wait |-> w, issued |-> None]
       /\ IF w > 0
          THEN /\ \E j \in Latencies : now' = now + w + j
               /\ calls' = Count(calls, {"ratewait"})
          ELSE UNCHANGED <<now, calls>>
    /\ pc' = "request"
    /\ UNCHANGED <<retries, attempt, tweet_content, result, last_tweet_time, numRuns,
                   mainVars, fmtVars>>

\* post_tweet, from the request on
PostRequest ==
    /\ pc = "request"
    /\ \E o \in PostOutcomes :
         /\ postCall' = [postCall EXCEPT !.issued = Some(now)]
         /\ now' = now
         /\ calls' = Count(calls, {"publish", IF o = "ok" THEN "ok" ELSE "failed"})
         /\ last_tweet_time' = RecordPublish(o = "ok", last_tweet_time, now')
         /\ PostReturned(o = "ok")
    /\ UNCHANGED <<retries, tweet_content, numRuns, mainVars, fmtVars>>

\* time.sleep(30) at the end of a failed attempt
Backoff ==
    /\ pc = "backoff"
    /\ \E j \in Latencies : now' = now + BackoffDelay + j
    /\ calls' = Count(calls, {"backoff"})
    /\ NextIteration
    /\ UNCHANGED <<retries, tweet_content, last_tweet_time, numRuns, postCall,
                   mainVars, fmtVars>>

----------------------------------------------------------------------------
(* The bot as an object: a caller constructs it and calls run any number of times *)

BotRun ==
    /\ mainPc = "lib"
    /\ \E n \in (0 - 1)..MaxRetries, d \in IdleTimes : CallRun(n, d)
    /\ UNCHANGED <<mainVars, fmtVars>>

Init ==
    /\ mainPc = "lib"
    /\ env = [v \in CredVars |-> "set"]
    /\ exitCode = None
    /\ fatal = ""
    /\ pc = "ready"
    /\ retries = 0
    /\ attempt = 0
    /\ tweet_content = None
    /\ result = "none"
    /\ last_tweet_time = None
    /\ now = StartTime
    /\ calls = NoCalls
    /\ numRuns = 0
    /\ postCall = NoCall
    /\ raw = <<>>
    /\ out = <<>>
    /\ again = <<>>
    /\ fmtPc = "na"

Next == BotRun \/ Generate \/ PostWait \/ PostRequest \/ Backoff

Spec == Init /\ [][Next]_vars

----------------------------------------------------------------------------
(* The process: the __main__ block *)

\* a check for None alone, which lets "" through
MissingVarsUnset(e) == {v \in CredVars : e[v] = "unset"}

\* _load_credentials: the required variables os.getenv finds unset or empty
MissingVars(e) == {v \in CredVars : e[v] # "set"}

\* an exit code that ignores run's return value
ExitCodeOfZero(success) == 0

\* exit_code = 0 if success else 1
ExitCodeOf(success) == IF success = "true" THEN 0 ELSE 1

\* ModuleInstaller.install_requirements(): pip succeeds for every module, or
\* CalledProcessError reaches the handler of the main block
MainInstall ==
    /\ mainPc = "start"
    /\ \E ok \in BOOLEAN :
         IF ok
         THEN mainPc' = "installed" /\ UNCHANGED <<exitCode, fatal>>
         ELSE mainPc' = "exited" /\ exitCode' = Some(1) /\ fatal' = "CalledProcessError"
    /\ UNCHANGED <<env, runVars, fmtVars>>

\* bot = TwitterBot(): _load_credentials raises EnvironmentError when a variable
\* is missing; the session and the clients are built otherwise, unless one of
\* their constructors raises
MainConstruct ==
    /\ mainPc = "installed"
    /\ \E built \in BOOLEAN :
         IF MissingVars(env) # {} \/ ~built
         THEN /\ mainPc' = "exited"
              /\ exitCode' = Some(1)
              /\ fatal' = IF MissingVars(env) # {} THEN "EnvironmentError" ELSE "Exception"
              /\ UNCHANGED <<pc, last_tweet_time>>
         ELSE /\ mainPc' = "constructed"
              /\ pc' = "ready"
              /\ last_tweet_time' = None
              /\ UNCHANGED <<exitCode, fatal>>
    /\ UNCHANGED <<env, retries, attempt, tweet_content, result, now, calls, numRuns,
                   postCall, fmtVars>>

\* success = bot.run()
MainRun ==
    /\ mainPc = "constructed"
    /\ mainPc' = "running"
    /\ CallRun(DefaultRetries, 0)
    /\ UNCHANGED <<env, exitCode, fatal, fmtVars>>

\* exit(exit_code), once run has returned
MainExit ==
    /\ mainPc = "running"
    /\ pc = "done"
    /\ mainPc' = "exited"
    /\ exitCode' = Some(ExitCodeOf(result))
    /\ UNCHANGED <<env, fatal, runVars, fmtVars>>

InitMain ==
    /\ mainPc = "start"
    /\ env \in [CredVars -> EnvValues]
    /\ exitCode = None
    /\ fatal = ""
    /\ pc = "unbuilt"
    /\ retries = 0
    /\ attempt = 0
    /\ tweet_content = None
    /\ result = "none"
    /\ last_tweet_time = None
    /\ now \in {StartTime + d : d \in IdleTimes}
    /\ calls = NoCalls
    /\ numRuns = 0
    /\ postCall = NoCall
    /\ raw = <<>>
    /\ out = <<>>
    /\ again = <<>>
    /\ fmtPc = "na"

NextMain ==
    \/ MainInstall \/ MainConstruct \/ MainRun
    \/ Generate \/ PostWait \/ PostRequest \/ Backoff
    \/ MainExit

SpecMain == InitMain /\ [][NextMain]_vars

----------------------------------------------------------------------------
(* The formatter alone: _format_content applied to one input *)

PadChars == {"a", " ", "\n"}
Pads(m) == UNION {[1..n -> PadChars] : n \in 0..m}
FillLens == {0} \cup ((MAX_TWEET_LENGTH - FillSlack)..(MAX_TWEET_LENGTH + 2))
FillPeriods == {0, 46}

\* a head, a long filler and a tail
RawInputs ==
    {h \o Filler(n, p) \o t : h \in Pads(MaxHead), t \in Pads(MaxTail), n \in FillLens, p \in FillPeriods}

Format ==
    /\ fmtPc = "input"
    /\ out' = FormatContent(raw)
    /\ fmtPc' = "formatted"
    /\ UNCHANGED <<raw, again, mainVars, runVars>>

\* _format_content applied to its own output
Reformat ==
    /\ fmtPc = "formatted"
    /\ again' = FormatContent(out)
    /\ fmtPc' = "reformatted"
    /\ UNCHANGED <<raw, out, mainVars, runVars>>

InitFormat ==
    /\ mainPc = "lib"
    /\ env = [v \in CredVars |-> "set"]
    /\ exitCode = None
    /\ fatal = ""
    /\ pc = "unbuilt"
    /\ retries = 0
    /\ attempt = 0
    /\ tweet_content = None
    /\ result = "none"
    /\ last_tweet_time = None
    /\ now = StartTime
    /\ calls = NoCalls
    /\ numRuns = 0
    /\ postCall = NoCall
    /\ raw \in RawInputs
    /\ out = <<>>
    /\ again = <<>>
    /\ fmtPc = "input"

NextFormat == Format \/ Reformat

SpecFormat == InitFormat /\ [][NextFormat]_vars

----------------------------------------------------------------------------
(* Properties *)

\* every generate_tweet call of the current run returned non-empty content
AllGenerated == calls.generate >= 1 => calls.empty + calls.none + calls.raised = 0

\* C1: in a run(n), n >= 1, whose generation always yields content: while the
\* Publisher has only failed, fewer than n times, run has not returned (it goes on
\* to the next call); and once the Publisher has succeeded, on call k+1 after k
\* failures, run has returned true and the Publisher was called exactly k+1 <= n
\* times.
C1_FailsThenSucceeds ==
    (retries >= 1 /\ AllGenerated) =>
        /\ (calls.ok = 0 /\ calls.failed < retries) => pc # "done"
        /\ calls.ok >= 1 =>
              /\ pc = "done"
              /\ result = "true"
              /\ calls.publish = calls.failed + 1
              /\ calls.publish <= retries

C1_Witness ==
    /\ pc = "done" /\ retries = DefaultRetries /\ AllGenerated
    /\ calls.failed = 2 /\ calls.ok = 1 /\ calls.publish = 3 /\ result = "true"

\* C2: a run(n), n >= 1, whose generation always yields content and whose
\* Publisher always fails returns false after exactly n Publisher calls and
\* exactly n-1 backoff sleeps.
C2_AlwaysFails ==
    (retries >= 1 /\ AllGenerated /\ calls.ok = 0) =>
        /\ calls.publish = calls.failed
        /\ calls.publish <= retries
        /\ pc = "done" =>
              /\ result = "false"
              /\ calls.publish = retries
              /\ calls.backoff = retries - 1

C2_Witness ==
    /\ pc = "done" /\ retries = DefaultRetries /\ AllGenerated
    /\ calls.failed = 3 /\ calls.backoff = 2 /\ result = "false"

\* C3: a run(n), n >= 1, whose generation returns "" or None on every attempt
\* never reaches post_tweet, and returns false.
C3_AlwaysEmpty ==
    (retries >= 1 /\ calls.empty + calls.none = calls.generate) =>
        /\ calls.publish = 0
        /\ calls.ratewait = 0
        /\ pc \notin {"post", "request"}
        /\ pc = "done" => result = "false" /\ calls.generate = retries

C3_Witness ==
    /\ pc = "done" /\ retries = DefaultRetries /\ result = "false"
    /\ calls.generate = 3 /\ calls.empty >= 1 /\ calls.none >= 1
    /\ calls.empty + calls.none = 3

\* C4: whenever an attempt that is not the last one ends because generation
\* returned "" or None, the run goes to the backoff sleep before the next attempt.
C4_BackoffAfterEmpty ==
    [][ ( /\ pc = "generate"
          /\ calls'.empty + calls'.none > calls.empty + calls.none
          /\ attempt + 1 < retries )
        => pc' = "backoff" ]_vars

\* C5: at most one publish succeeds in a run; at a success the run has returned
\* (no step of it is left to take) and the success was its last call; run returns
\* true exactly when a publish succeeded.
C5_OneSuccess ==
    /\ calls.ok <= 1
    /\ calls.ok = 1 => (pc = "done" /\ calls.publish = calls.failed + 1)
    /\ (result = "true") <=> (calls.ok = 1)
    /\ (pc = "done" /\ numRuns >= 1) => result \in {"true", "false"}
    /\ pc # "done" => result = "none"

C5_Witness ==
    /\ pc = "done" /\ result = "true" /\ calls.ok = 1
    /\ calls.failed = 1 /\ calls.empty = 1 /\ retries = DefaultRetries

Max0(x) == IF x > 0 THEN x ELSE 0

\* C6: a post_tweet call that finds a last publish time T sleeps
\* RATE_LIMIT_DELAY - (time of the call - T) seconds, or not at all when that is
\* not positive, and sends its request no earlier than T + RATE_LIMIT_DELAY; a
\* call that finds no last publish time sends its request at once.
C6_RateLimit ==
    postCall # NoCall =>
        LET T == postCall.last IN
        /\ T = None => postCall.wait = 0
        /\ T # None => postCall.wait = Max0(RATE_LIMIT_DELAY - (postCall.at - T[1]))
        /\ postCall.issued # None =>
              /\ postCall.issued[1] >= postCall.at + postCall.wait
              /\ postCall.wait = 0 => postCall.issued[1] = postCall.at
              /\ T # None => postCall.issued[1] >= T[1] + RATE_LIMIT_DELAY

C6_Witness ==
    /\ postCall.issued # None
    /\ postCall.last # None
    /\ postCall.at > postCall.last[1]
    /\ postCall.wait > 0
    /\ postCall.wait < RATE_LIMIT_DELAY

\* C7: the process exits with code 0 when a publish succeeded in its run, and
\* with code 1 in every other case: attempts exhausted, or an exception that
\* reached the main block.
C7_ExitCode ==
    /\ mainPc # "exited" => exitCode = None
    /\ mainPc = "exited" => exitCode = (IF calls.ok >= 1 THEN Some(0) ELSE Some(1))
    /\ fatal # "" => exitCode = Some(1)

C7_Witness ==
    /\ mainPc = "exited" /\ exitCode = Some(0)
    /\ calls.ok = 1 /\ calls.failed = 2

\* a required credential is unset or empty
CredentialMissing == \E v \in CredVars : env[v] \in {"unset", "empty"}

\* C8: with a required credential unset or empty, no bot is ever built and run is
\* never called: no generate call, no publish call, no sleep; the process can only
\* exit, with code 1, on the EnvironmentError of the construction (or on a failed
\* install before it).
C8_MissingCredential ==
    CredentialMissing =>
        /\ calls = NoCalls
        /\ numRuns = 0
        /\ pc = "unbuilt"
        /\ postCall = NoCall
        /\ mainPc \in {"start", "installed", "exited"}
        /\ mainPc = "exited" =>
              /\ exitCode = Some(1)
              /\ fatal \in {"CalledProcessError", "EnvironmentError"}

C8_Witness ==
    /\ mainPc = "exited" /\ fatal = "EnvironmentError" /\ exitCode = Some(1)
    /\ env["CONSUMER_SECRET"] = "empty"
    /\ \A v \in CredVars \ {"CONSUMER_SECRET"} : env[v] = "set"

\* C9: an exception raised in a stage of an attempt (in generation, where
\* generate_tweet returns None or lets it reach run; in the publish) is handled
\* as a publish failure is: the backoff sleep when the attempt is not the last
\* one, and a return of false when it is.
C9_ExceptionIsFailure ==
    [][ ( \/ /\ pc = "generate"
             /\ calls'.none + calls'.raised > calls.none + calls.raised
          \/ /\ pc = "request"
             /\ calls'.failed > calls.failed )
        => IF attempt + 1 < retries
           THEN pc' = "backoff"
           ELSE pc' = "done" /\ result' = "false" ]_vars

RECURSIVE Piece(_, _, _)
\* the whitespace-normalized text of s[lo..hi], lo <= hi, by halving: its words
\* joined by single spaces, and whether it starts and ends with whitespace
Piece(s, lo, hi) ==
    IF lo = hi
    THEN IF s[lo] \in {" ", "\n", "\t"}
         THEN [body |-> <<>>, lead |-> TRUE, trail |-> TRUE]
         ELSE [body |-> <<s[lo]>>, lead |-> FALSE, trail |-> FALSE]
    ELSE LET mid == (lo + hi) \div 2
             a == Piece(s, lo, mid)
             b == Piece(s, mid + 1, hi)
         IN  IF a.body = <<>> THEN [body |-> b.body, lead |-> TRUE, trail |-> b.trail]
             ELSE IF b.body = <<>> THEN [body |-> a.body, lead |-> a.lead, trail |-> TRUE]
             ELSE [body |-> a.body \o (IF a.trail \/ b.lead THEN <<" ">> ELSE <<>>) \o b.body,
                   lead |-> a.lead, trail |-> b.trail]

\* the non-whitespace tokens of s joined by single spaces
TokensJoined(s) == IF s = <<>> THEN <<>> ELSE Piece(s, 1, Len(s)).body

\* C10: the output of _format_content is at most MAX_TWEET_LENGTH long, holds no
\* two whitespace characters in a row, no newline or tab, and no whitespace at
\* either end; and when the whitespace-normalized input is no longer than the
\* truncation threshold, the output is the input's tokens joined by single spaces.
C10_Formatted ==
    fmtPc = "formatted" =>
        /\ Len(out) <= MAX_TWEET_LENGTH
        /\ \A i \in 1..(Len(out) - 1) : ~(IsSpace(out[i]) /\ IsSpace(out[i + 1]))
        /\ \A i \in 1..Len(out) : out[i] \notin {"\n", "\t"}
        /\ out # <<>> => (~IsSpace(out[1]) /\ ~IsSpace(out[Len(out)]))
        /\ Len(TokensJoined(raw)) <= MAX_TWEET_LENGTH - 6 => out = TokensJoined(raw)

\* an input with leading whitespace and a newline, truncated where a space falls
\* last before the ellipsis
C10_Witness ==
    /\ fmtPc = "formatted"
    /\ Len(raw) > MAX_TWEET_LENGTH
    /\ IsSpace(raw[1])
    /\ \E i \in 1..Len(raw) : raw[i] = "\n"
    /\ Len(out) = MAX_TWEET_LENGTH - 6
    /\ out[MAX_TWEET_LENGTH - 9] = " "

\* s ends with the ellipsis marker
EndsWithEllipsis(s) == Len(s) >= 3 /\ SubSeq(s, Len(s) - 2, Len(s)) = <<".", ".", ".">>

\* C11 as stated: every input longer than MAX_TWEET_LENGTH gives an output that
\* ends with "..." and is exactly MAX_TWEET_LENGTH, or MAX_TWEET_LENGTH - 6, long.
C11_LongInputTruncated ==
    (fmtPc = "formatted" /\ Len(raw) > MAX_TWEET_LENGTH) =>
        /\ EndsWithEllipsis(out)
        /\ Len(out) \in {MAX_TWEET_LENGTH, MAX_TWEET_LENGTH - 6}

\* C11, amended: every input whose whitespace-normalized text is longer than
\* MAX_TWEET_LENGTH - 6 gives an output that is the first MAX_TWEET_LENGTH - 9
\* characters of that text followed by "...", exactly MAX_TWEET_LENGTH - 6 long.
C11_LongTextTruncated ==
    (fmtPc = "formatted" /\ Len(TokensJoined(raw)) > MAX_TWEET_LENGTH - 6) =>
        /\ EndsWithEllipsis(out)
        /\ Len(out) = MAX_TWEET_LENGTH - 6
        /\ SubSeq(out, 1, MAX_TWEET_LENGTH - 9)
              = SubSeq(TokensJoined(raw), 1, MAX_TWEET_LENGTH - 9)

\* a normalized text one character over the threshold
C11_Witness ==
    /\ fmtPc = "formatted"
    /\ Len(TokensJoined(raw)) = MAX_TWEET_LENGTH - 5
    /\ Len(raw) <= MAX_TWEET_LENGTH
    /\ EndsWithEllipsis(out)
    /\ Len(out) = MAX_TWEET_LENGTH - 6

\* s is single-spaced and trimmed
IsFormatted(s) ==
    /\ \A i \in 1..Len(s) : s[i] \notin {"\n", "\t"}
    /\ \A i \in 1..(Len(s) - 1) : ~(s[i] = " " /\ s[i + 1] = " ")
    /\ s # <<>> => (s[1] # " " /\ s[Len(s)] # " ")

\* C12 as stated: a single-spaced, trimmed input of length <= MAX_TWEET_LENGTH is
\* returned unchanged, and formatting an output again returns it unchanged.
C12_IdempotentUnderMax ==
    /\ (fmtPc # "input" /\ IsFormatted(raw) /\ Len(raw) <= MAX_TWEET_LENGTH) => out = raw
    /\ fmtPc = "reformatted" => again = out

\* C12, amended: a single-spaced, trimmed input of length <= MAX_TWEET_LENGTH - 6
\* is returned unchanged, and formatting an output again returns it unchanged.
C12_Idempotent ==
    /\ (fmtPc # "input" /\ IsFormatted(raw) /\ Len(raw) <= MAX_TWEET_LENGTH - 6) => out = raw
    /\ fmtPc = "reformatted" => again = out

\* a formatted input of two words, exactly at the threshold, formatted twice
C12_Witness ==
    /\ fmtPc = "reformatted"
    /\ IsFormatted(raw)
    /\ Len(raw) = MAX_TWEET_LENGTH - 6
    /\ \E i \in 1..Len(raw) : raw[i] = " "
    /\ out = raw
    /\ again = out

\* a step of post_tweet that ended in its exception handler
PostFailed == pc = "request" /\ calls'.failed = calls.failed + 1

\* a step of post_tweet that returned True
PostSucceeded == pc = "request" /\ calls'.ok = calls.ok + 1

\* C13: last_tweet_time changes only in a post_tweet call that succeeds, which
\* sets it to the time of that moment, so it never decreases and is never unset
\* again; a post_tweet call that fails returns False to run after its one remote
\* write (post_tweet is not entered again in the same attempt, the run does not
\* return True) and leaves last_tweet_time as it was.
C13_LastTweetTime ==
    [][ /\ last_tweet_time' # last_tweet_time => PostSucceeded
        /\ PostSucceeded =>
              /\ last_tweet_time' = Some(now')
              /\ calls'.publish = calls.publish + 1
              /\ result' = "true"
        /\ PostFailed =>
              /\ last_tweet_time' = last_tweet_time
              /\ calls'.publish = calls.publish + 1
              /\ calls'.ok = calls.ok
              /\ pc' \in {"backoff", "generate", "done"}
              /\ result' # "true"
        /\ last_tweet_time # None =>
              /\ last_tweet_time' # None
              /\ last_tweet_time'[1] >= last_tweet_time[1] ]_vars

\* a failed publish in a run that started with a recorded publish time, which is kept
C13_Witness ==
    /\ calls.failed >= 1
    /\ calls.ok = 0
    /\ postCall.issued # None
    /\ postCall.last # None
    /\ last_tweet_time = postCall.last

\* run is inside its loop
Running == pc \in {"generate", "post", "request", "backoff"}

\* the whitespace-normalized texts of the generator's raw outputs
GenTexts == {TokensJoined(r) : r \in GenRaws}

\* C14: the content run hands to post_tweet is a non-empty string of at most
\* MAX_TWEET_LENGTH characters, the formatted text generate_tweet returned in this
\* attempt; each attempt calls generate_tweet once and post_tweet at most once,
\* the generation before the publish.
C14_PublishedContent ==
    /\ pc \in {"post", "request"} =>
          /\ tweet_content # None
          /\ tweet_content[1] # <<>>
          /\ Len(tweet_content[1]) <= MAX_TWEET_LENGTH
          /\ \E t \in GenTexts : tweet_content[1] = t
                                   \/ /\ Len(t) > MAX_TWEET_LENGTH - 6
                                      /\ EndsWithEllipsis(tweet_content[1])
          /\ calls.generate = attempt + 1
          /\ calls.publish <= attempt
    /\ pc = "generate" => (calls.generate = attempt /\ calls.publish <= attempt)
    /\ pc = "backoff" => (calls.generate = attempt + 1 /\ calls.publish <= attempt + 1)
    /\ calls.publish <= calls.generate

\* a truncated text on its way to the Publisher in the second attempt
C14_Witness ==
    /\ pc = "request"
    /\ attempt = 1
    /\ Len(tweet_content[1]) = MAX_TWEET_LENGTH - 6
    /\ EndsWithEllipsis(tweet_content[1])

\* the calls of a run stay within its attempt budget
WithinBudget ==
    numRuns >= 1 =>
        /\ attempt < retries \/ (retries <= 0 /\ attempt = 0)
        /\ calls.generate <= retries \/ (retries <= 0 /\ calls.generate = 0)
        /\ calls.publish <= calls.generate
        /\ calls.backoff <= retries - 1 \/ (retries <= 0 /\ calls.backoff = 0)
        /\ calls.backoff <= attempt
        /\ pc = "backoff" => (attempt < retries - 1 /\ calls.ok = 0)
        /\ pc = "done" => result \in {"true", "false"}

\* C15: when every call and every sleep returns, a run that is in its loop
\* reaches its return, with true or false; and at every moment it has made at
\* most max_attempts generate calls, no more publish calls than generate calls,
\* at most max_attempts - 1 backoff sleeps, and it sleeps neither after the last
\* attempt nor after a successful publish.
C15_Terminates ==
    /\ []WithinBudget
    /\ Running ~> (pc = "done" /\ result \in {"true", "false"})

\* a run of three attempts that used its whole budget and returned
C15_Witness ==
    /\ pc = "done" /\ result = "false" /\ retries = DefaultRetries
    /\ calls.generate = 3 /\ calls.publish = 2 /\ calls.backoff = 2 /\ calls.empty = 0
    /\ calls.raised = 1

\* C16: in the first run on a new bot no rate-limit sleep is taken, whatever the
\* attempts do: last_tweet_time stays unset until the successful publish that
\* ends the run. A rate-limit sleep is taken only in a later run on the same
\* bot, by a post_tweet call that found the time of an earlier success.
C16_NoWaitInFirstRun ==
    /\ numRuns <= 1 =>
          /\ calls.ratewait = 0
          /\ postCall.last = None /\ postCall.wait = 0
          /\ pc # "done" => last_tweet_time = None
          /\ last_tweet_time # None <=> calls.ok = 1
    /\ calls.ratewait >= 1 =>
          /\ numRuns >= 2
          /\ postCall.last # None
          /\ last_tweet_time # None

\* a first run whose three attempts all reached the Publisher without a wait
C16_Witness ==
    /\ numRuns = 1 /\ pc = "done" /\ retries = DefaultRetries
    /\ calls.publish = 3 /\ calls.ok = 1 /\ calls.ratewait = 0
    /\ postCall.issued = Some(postCall.at)

\* a step that calls run
RunCalled == numRuns' = numRuns + 1

\* C17: run(retries) with retries <= 0 returns false at once: no generate call,
\* no publish call, no sleep, and last_tweet_time as it was.
C17_NoAttempts ==
    [][ (RunCalled /\ retries' <= 0) =>
            /\ pc' = "done"
            /\ result' = "false"
            /\ calls' = NoCalls
            /\ postCall' = NoCall
            /\ last_tweet_time' = last_tweet_time ]_vars

\* run(-1) has returned on a bot that published before
C17_Witness ==
    /\ retries < 0 /\ numRuns = 2 /\ pc = "done" /\ result = "false"
    /\ calls = NoCalls /\ last_tweet_time # None

----------------------------------------------------------------------------
(* The run under the assumption that every call and every sleep returns *)

SpecLive ==
    /\ Init
    /\ [][Next]_vars
    /\ WF_vars(Generate)
    /\ WF_vars(PostWait)
    /\ WF_vars(PostRequest)
    /\ WF_vars(Backoff)

====
